---- MODULE Spec2Model ----
(***************************************************************************)
(* PassVault: the encrypted vault file (vault/core.py, pvlt/utils.py) and  *)
(* the entry store built on it (pass_vault.py).                            *)
(*                                                                         *)
(* Cryptography is modelled symbolically.  A byte is a record              *)
(*   [s |-> set of atoms, x |-> 0..255]                                    *)
(* denoting the XOR of the atoms' bytes and the literal x.  AES is an      *)
(* ideal cipher sampled lazily: block encryptions are remembered in the    *)
(* table `aes`; a block nobody encrypted decrypts to an atom named by the  *)
(* key and the block.  SHA-512 is a random oracle remembered in the table  *)
(* `sha`, and PBKDF2 an injective function of (password, salt).            *)
(* get_random_bytes and the oracles return atoms numbered by the counter   *)
(* `fresh`.                                                                *)
(*                                                                         *)
(* The entry table is a Python dict: its items in insertion order.  It is  *)
(* written to the file as the text json.dumps makes of it and read back by *)
(* a parser of that text.  `self` is the PassVault object in use, `now`    *)
(* the time time.time() returns, `call` the last call and its outcome.     *)
(*                                                                         *)
(* `running` holds the invocations that are under way when calls overlap.  *)
(*                                                                         *)
(* Four specifications share the variables:                                *)
(*   Spec         VaultCore.new / read / write and an adversary who alters *)
(*                the file;                                                *)
(*   SpecEntries  the methods of PassVault that work on the table alone;   *)
(*   SpecStore    PassVault with its file: new, load, save and the methods *)
(*                that change the table.                                   *)
(*   SpecRace     read and write of two invocations, taken one access to   *)
(*                the file at a time.                                      *)
(***************************************************************************)
EXTENDS Integers, Sequences, FiniteSets, TLC

VARIABLES file, aes, sha, fresh, disk, written, tampers, call, self, now, running

vars == <<file, aes, sha, fresh, disk, written, tampers, call, self, now, running>>

(* ------------------------------ bounds --------------------------------- *)

\* longest payload handed to write()
MaxLen == 17
\* number of times the vault file is (re)written in one behaviour
MaxWrites == 3
\* number of times the file's adversary alters it in one behaviour
MaxTampers == 1

(* ------------------------- program constants --------------------------- *)

BLOCK_SIZE == 16
SHA512_SIZE == 64
SALT_SIZE == 8
IV_SIZE == BLOCK_SIZE
VAULT_MAGIC_SIZE == 4

(* ------------------------------- bytes --------------------------------- *)

Lit(v) == [s |-> {}, x |-> v]

Lits(seq) == [i \in 1..Len(seq) |-> Lit(seq[i])]

\* atoms: byte j of the random value numbered id, <<"R", id, j>>; of the
\* cipher block numbered id, <<"E", id, j>>; of the digest numbered id,
\* <<"H", id, j>>; of the block that the unseen
\* ciphertext block c decrypts to under key, <<"D", key, c, j>>
Sym(a) == [s |-> {a}, x |-> 0]

RECURSIVE XorNat(_, _)
XorNat(a, b) ==
    IF a = 0 THEN b
    ELSE IF b = 0 THEN a
    ELSE (((a % 2) + (b % 2)) % 2) + (2 * XorNat(a \div 2, b \div 2))

XorByte(a, b) == [s |-> (a.s \ b.s) \cup (b.s \ a.s), x |-> XorNat(a.x, b.x)]

strxor(a, b) == [i \in 1..Len(a) |-> XorByte(a[i], b[i])]

\* Python slices x[:n] and x[n:] (n >= 0), x[-n:] and x[:-n] (n > 0)
Take(x, n) == SubSeq(x, 1, IF n < Len(x) THEN n ELSE Len(x))
Drop(x, n) == SubSeq(x, (IF n < Len(x) THEN n ELSE Len(x)) + 1, Len(x))
Last(x, n) == Drop(x, IF Len(x) > n THEN Len(x) - n ELSE 0)
ButLast(x, n) == Take(x, IF Len(x) > n THEN Len(x) - n ELSE 0)

\* F applied to the value of v
Bind(v, F(_)) == CHOOSE r \in {F(x) : x \in {v}} : TRUE

\* 'PVLT'
VAULT_MAGIC == Lits(<<80, 86, 76, 84>>)

(* --------------------------- pvlt/utils.py ----------------------------- *)

\* str.encode() of a one-character string (UTF-8)
EncodeChr(cp) ==
    IF cp < 128 THEN <<Lit(cp)>>
    ELSE <<Lit(192 + (cp \div 64)), Lit(128 + (cp % 64))>>

RECURSIVE Repeat(_, _)
Repeat(seq, n) == IF n = 0 THEN <<>> ELSE seq \o Repeat(seq, n - 1)

pad_drop_zero_case(x, bs) ==
    LET ps == ((bs - Len(x)) % bs)
    IN  x \o Repeat(EncodeChr(ps), ps)

pad(x, bs) ==
    LET ps0 == (bs - Len(x)) % bs
        ps == IF ps0 = 0 THEN bs ELSE ps0
    IN  x \o Repeat(EncodeChr(ps), ps)

\* x[:-p] where p is the value of x[-1]; -0 is 0, so p = 0 gives x[:0]
unpad_at(x, p) == IF p = 0 THEN <<>> ELSE ButLast(x, p)

\* the values the integer x[-1] can take: a literal byte is its value, a
\* byte of cipher output is any value
ByteValues(b) == IF b.s = {} THEN {b.x} ELSE 0..255

unpad(x) == Bind(x, LAMBDA v : {unpad_at(v, p) : p \in ByteValues(v[Len(v)])})

\* the digest numbered id
Digest(id) == [j \in 1..SHA512_SIZE |-> Sym(<<"H", id, j>>)]

\* [tbl, n, out]: the digest of data, the hash table and the counter after
calc_sha512_hash(tbl, n, data) ==
    LET hit == {e \in tbl : e.data = data}
    IN  IF hit # {}
        THEN [tbl |-> tbl, n |-> n, out |-> Digest((CHOOSE e \in hit : TRUE).id)]
        ELSE [tbl |-> tbl \cup {[data |-> data, id |-> n]}, n |-> n + 1,
              out |-> Digest(n)]

generate_key_from_master_password(master_password, salt) ==
    [pw |-> master_password, salt |-> salt]

get_random_bytes_stuck(id, size) ==
    [j \in 1..size |-> Sym(<<"R", 0, j>>)]

\* get_random_bytes(size), the value numbered id
get_random_bytes(id, size) ==
    [j \in 1..size |-> Sym(<<"R", id, j>>)]

(* ----------------------- AES in CBC mode (ideal) ----------------------- *)

\* the i-th block of data
Block(data, i) == SubSeq(data, (BLOCK_SIZE * (i - 1)) + 1, BLOCK_SIZE * i)

\* the block an unseen ciphertext block decrypts to under key
Garbage(key, c) == [j \in 1..BLOCK_SIZE |-> Sym(<<"D", key, c, j>>)]

IsGarbage(key, x) ==
    /\ x[1].x = 0
    /\ Cardinality(x[1].s) = 1
    /\ Bind(CHOOSE a \in x[1].s : TRUE,
            LAMBDA a : Len(a) = 4 /\ a[2] = key /\ x = Garbage(key, a[3]))

\* A cipher object: the memory of the ideal cipher, the counter of fresh
\* values, the chaining value, and the output so far.
NewCipher(tbl, n, iv) == [tbl |-> tbl, n |-> n, prev |-> iv, out |-> <<>>]

Emit(c, ct) == [c EXCEPT !.prev = ct, !.out = @ \o ct]

\* one block through the cipher
EncBlock(c, key, blk) ==
    Bind(strxor(blk, c.prev), LAMBDA x :
    Bind({e \in c.tbl : e.key = key /\ e.pt = x}, LAMBDA hit :
        IF hit # {}
        THEN Emit(c, (CHOOSE e \in hit : TRUE).ct)
        ELSE IF IsGarbage(key, x)
        THEN Emit(c, (CHOOSE a \in x[1].s : TRUE)[3])
        ELSE Bind([j \in 1..BLOCK_SIZE |-> Sym(<<"E", c.n, j>>)], LAMBDA ct :
                 [tbl |-> c.tbl \cup {[key |-> key, pt |-> x, ct |-> ct]},
                  n |-> c.n + 1, prev |-> ct, out |-> c.out \o ct])))

DecBlock(tbl, key, c) ==
    Bind({e \in tbl : e.key = key /\ e.ct = c}, LAMBDA hit :
        IF hit # {} THEN (CHOOSE e \in hit : TRUE).pt ELSE Garbage(key, c))

\* cipher.encrypt(data) from block i on: the cipher object afterwards
RECURSIVE CbcEncrypt(_, _, _, _)
CbcEncrypt(c, key, data, i) ==
    IF BLOCK_SIZE * (i - 1) >= Len(data) THEN c
    ELSE Bind(EncBlock(c, key, Block(data, i)),
              LAMBDA c1 : CbcEncrypt(c1, key, data, i + 1))

\* cipher.decrypt(data) from block i on, data a whole number of blocks and
\* prev the chaining value
RECURSIVE CbcDecrypt(_, _, _, _, _)
CbcDecrypt(tbl, key, prev, data, i) ==
    IF BLOCK_SIZE * (i - 1) >= Len(data) THEN <<>>
    ELSE strxor(DecBlock(tbl, key, Block(data, i)), prev)
             \o CbcDecrypt(tbl, key, Block(data, i), data, i + 1)

(* ---------------------------- vault/core.py ---------------------------- *)

\* What is at the vault's path: nothing, a file with its bytes, or a
\* directory.
Directory == [exists |-> TRUE, bytes |-> <<>>, dir |-> TRUE]

\* os.path.exists(file_path) and os.path.isfile(file_path)
file_exists(f) == f.exists /\ f # Directory

_is_vault_file(f) ==
    IF ~file_exists(f) THEN FALSE
    ELSE Take(f.bytes, VAULT_MAGIC_SIZE) = VAULT_MAGIC

\* the exception _check_vault_file raises, "ok" if none
_check_vault_file(f) ==
    IF ~file_exists(f) THEN "VaultFileDoesNotExist"
    ELSE IF ~_is_vault_file(f) THEN "InvalidVaultFormat"
    ELSE "ok"

_gen_key_without_password(master_password, salt) ==
    generate_key_from_master_password("", salt)

_gen_key(master_password, salt) ==
    generate_key_from_master_password(master_password, salt)

\* [tbl, htbl, n, enc_data, enc_vault_hash, vault_hash]
_encrypt_vault(tbl, htbl, n, key, iv, data) ==
    Bind(pad(data, BLOCK_SIZE), LAMBDA padded_data :
    Bind(CbcEncrypt(NewCipher(tbl, n, iv), key, padded_data, 1), LAMBDA cipher1 :
    Bind(calc_sha512_hash(htbl, cipher1.n, cipher1.out), LAMBDA h :
    Bind(CbcEncrypt([cipher1 EXCEPT !.n = h.n, !.out = <<>>], key, h.out, 1),
         LAMBDA cipher2 :
             [tbl |-> cipher2.tbl, htbl |-> h.tbl, n |-> cipher2.n,
              enc_data |-> cipher1.out, enc_vault_hash |-> cipher2.out,
              vault_hash |-> h.out]))))

\* the outcomes of _decrypt_vault: [exc, data, dec_vault_hash]
_decrypt_vault(tbl, key, iv, enc_data) ==
    IF Len(enc_data) % BLOCK_SIZE # 0
    THEN {[exc |-> "CorruptedVaultException", data |-> <<>>, dec_vault_hash |-> <<>>]}
    ELSE Bind(CbcDecrypt(tbl, key, iv, enc_data, 1), LAMBDA data :
         Bind(ButLast(data, SHA512_SIZE), LAMBDA body :
         Bind(Last(data, SHA512_SIZE), LAMBDA dec_vault_hash :
             IF body = <<>>
             THEN {[exc |-> "IndexError", data |-> <<>>, dec_vault_hash |-> <<>>]}
             ELSE {[exc |-> "ok", data |-> d, dec_vault_hash |-> dec_vault_hash] :
                      d \in unpad(body)})))

_write_to_vault_file_tags_swapped(tbl, htbl, n, master_password, data) ==
    Bind(get_random_bytes(n, SALT_SIZE), LAMBDA salt :
    Bind(get_random_bytes(n + 1, IV_SIZE), LAMBDA iv :
    Bind(_encrypt_vault(tbl, htbl, n + 2, _gen_key(master_password, salt), iv, data),
         LAMBDA e :
             [file |-> [exists |-> TRUE,
                        bytes |-> VAULT_MAGIC \o salt \o iv \o e.enc_data
                                      \o e.vault_hash \o e.enc_vault_hash],
              tbl |-> e.tbl, htbl |-> e.htbl, n |-> e.n, salt |-> salt, iv |-> iv])))

\* [file, tbl, htbl, n, salt, iv]: the file and the tables after writing data
_write_to_vault_file(tbl, htbl, n, master_password, data) ==
    Bind(get_random_bytes(n, SALT_SIZE), LAMBDA salt :
    Bind(get_random_bytes(n + 1, IV_SIZE), LAMBDA iv :
    Bind(_encrypt_vault(tbl, htbl, n + 2, _gen_key(master_password, salt), iv, data),
         LAMBDA e :
             [file |-> [exists |-> TRUE,
                        bytes |-> VAULT_MAGIC \o salt \o iv \o e.enc_data
                                      \o e.enc_vault_hash \o e.vault_hash],
              tbl |-> e.tbl, htbl |-> e.htbl, n |-> e.n, salt |-> salt, iv |-> iv])))

\* the outcomes of _read_from_vault_file: [exc, data]
_read_from_vault_file(f, tbl, master_password) ==
    Bind(Take(Drop(f.bytes, VAULT_MAGIC_SIZE), SALT_SIZE), LAMBDA salt :
    Bind(Take(Drop(f.bytes, VAULT_MAGIC_SIZE + SALT_SIZE), IV_SIZE), LAMBDA iv :
    Bind(Drop(f.bytes, VAULT_MAGIC_SIZE + SALT_SIZE + IV_SIZE), LAMBDA rest :
    Bind(Last(rest, SHA512_SIZE), LAMBDA vault_hash :
        {IF d.exc # "ok" THEN [exc |-> d.exc, data |-> <<>>]
         ELSE IF d.dec_vault_hash # vault_hash
         THEN [exc |-> "VaultMasterPasswordIncorrect", data |-> <<>>]
         ELSE [exc |-> "ok", data |-> d.data] :
            d \in _decrypt_vault(tbl, _gen_key(master_password, salt), iv,
                                 ButLast(rest, SHA512_SIZE))}))))

(* ------------------ Python values held by PassVault -------------------- *)

\* A value is None, a str (its characters' code points), a float (model
\* times are whole seconds n, the float n.0), a dict (its items in insertion
\* order, each <<key, value>>) or a display string made of a timestamp.
None == [t |-> "null", s |-> <<>>, n |-> 0, o |-> <<>>]
Str(s) == [t |-> "str", s |-> s, n |-> 0, o |-> <<>>]
Float(n) == [t |-> "num", s |-> <<>>, n |-> n, o |-> <<>>]
Dict(o) == [t |-> "obj", s |-> <<>>, n |-> 0, o |-> o]

Keys(d) == [i \in 1..Len(d.o) |-> d.o[i][1]]

\* key in d
Has(d, key) == \E i \in 1..Len(d.o) : d.o[i][1] = key

\* d[key], key in d
Get(d, key) == d.o[CHOOSE i \in 1..Len(d.o) : d.o[i][1] = key][2]

\* d[key] = v: an old key keeps its place, a new key goes last
Set(d, key, v) ==
    IF Has(d, key)
    THEN Dict([i \in 1..Len(d.o) |-> IF d.o[i][1] = key THEN <<key, v>> ELSE d.o[i]])
    ELSE Dict(Append(d.o, <<key, v>>))

(* ---------------------- json.dumps / json.loads ------------------------ *)

\* 'null'
NULL_TEXT == <<110, 117, 108, 108>>

RECURSIVE Digits(_)
Digits(n) == IF n < 10 THEN <<48 + n>> ELSE Digits(n \div 10) \o <<48 + (n % 10)>>

\* the body of a JSON string: '"' (34) and '\' (92) are escaped (the model's
\* strings are printable ASCII)
RECURSIVE Escape(_, _)
Escape(s, i) ==
    IF i > Len(s) THEN <<>>
    ELSE (IF s[i] \in {34, 92} THEN <<92, s[i]>> ELSE <<s[i]>>)
             \o Escape(s, i + 1)

DumpsStr(s) == <<34>> \o Escape(s, 1) \o <<34>>

\* json.dumps(v) with the default separators ', ' and ': '; float n.0 is
\* written by float.__repr__
RECURSIVE dumps(_)
RECURSIVE DumpsItems(_, _)
DumpsItems(o, i) ==
    IF i > Len(o) THEN <<>>
    ELSE (IF i > 1 THEN <<44, 32>> ELSE <<>>)
             \o DumpsStr(o[i][1]) \o <<58, 32>> \o dumps(o[i][2])
             \o DumpsItems(o, i + 1)

dumps(v) ==
    CASE v.t = "null" -> NULL_TEXT
      [] v.t = "str" -> DumpsStr(v.s)
      [] v.t = "num" -> Digits(v.n) \o <<46, 48>>
      [] v.t = "obj" -> <<123>> \o DumpsItems(v.o, 1) \o <<125>>

\* str.encode(): the model's text is ASCII
encode(text) == Lits(text)

\* bytes to text as json.loads does it; bytes of cipher output are no text
IsText(bytes) == \A i \in 1..Len(bytes) : bytes[i].s = {} /\ bytes[i].x < 128

decode(bytes) == [i \in 1..Len(bytes) |-> bytes[i].x]

\* A parse result: [ok, v, i], i the position after the value.
Fail == [ok |-> FALSE, v |-> None, i |-> 0]
Parsed(v, i) == [ok |-> TRUE, v |-> v, i |-> i]

IsSpace(c) == c \in {32, 9, 10, 13}
IsDigit(c) == c \in 48..57

RECURSIVE SkipSpace(_, _)
SkipSpace(cs, i) ==
    IF i <= Len(cs) /\ IsSpace(cs[i]) THEN SkipSpace(cs, i + 1) ELSE i

\* the characters of a JSON string whose opening quote is before i; the
\* result's s is the text, i the position after the closing quote
RECURSIVE ParseChars(_, _, _)
ParseChars(cs, i, acc) ==
    IF i > Len(cs) THEN Fail
    ELSE IF cs[i] = 34 THEN Parsed(Str(acc), i + 1)
    ELSE IF cs[i] = 92
    THEN IF i + 1 <= Len(cs) /\ cs[i + 1] \in {34, 92}
         THEN ParseChars(cs, i + 2, Append(acc, cs[i + 1]))
         ELSE Fail
    ELSE IF cs[i] < 32 THEN Fail
    ELSE ParseChars(cs, i + 1, Append(acc, cs[i]))

\* digits from i on: [ok, v = Float(value), i]
RECURSIVE ParseDigits(_, _, _, _)
ParseDigits(cs, i, acc, any) ==
    IF i <= Len(cs) /\ IsDigit(cs[i])
    THEN ParseDigits(cs, i + 1, (10 * acc) + (cs[i] - 48), TRUE)
    ELSE IF any THEN Parsed(Float(acc), i) ELSE Fail

\* a number: digits, optionally followed by '.' and digits (the model holds
\* whole seconds only: a fraction other than zero is outside it)
ParseNumber(cs, i) ==
    Bind(ParseDigits(cs, i, 0, FALSE), LAMBDA int :
        IF ~int.ok THEN Fail
        ELSE IF int.i <= Len(cs) /\ cs[int.i] = 46
        THEN Bind(ParseDigits(cs, int.i + 1, 0, FALSE), LAMBDA frac :
                 IF frac.ok /\ frac.v.n = 0 THEN Parsed(int.v, frac.i) ELSE Fail)
        ELSE int)

RECURSIVE ParseValue(_, _)
RECURSIVE ParseItems(_, _, _)

\* the items of an object from i on (after '{' or ','), acc the dict so far;
\* a repeated key keeps its last value
ParseItems(cs, i, acc) ==
    Bind(SkipSpace(cs, i), LAMBDA k :
        IF k > Len(cs) \/ cs[k] # 34 THEN Fail
        ELSE Bind(ParseChars(cs, k + 1, <<>>), LAMBDA key :
            IF ~key.ok THEN Fail
            ELSE Bind(SkipSpace(cs, key.i), LAMBDA c :
                IF c > Len(cs) \/ cs[c] # 58 THEN Fail
                ELSE Bind(ParseValue(cs, c + 1), LAMBDA val :
                    IF ~val.ok THEN Fail
                    ELSE Bind(SkipSpace(cs, val.i), LAMBDA e :
                        IF e > Len(cs) THEN Fail
                        ELSE IF cs[e] = 125
                        THEN Parsed(Set(acc, key.v.s, val.v), e + 1)
                        ELSE IF cs[e] = 44
                        THEN ParseItems(cs, e + 1, Set(acc, key.v.s, val.v))
                        ELSE Fail)))))

\* a JSON value from i on: an object, a string, a number or null
ParseValue(cs, i) ==
    Bind(SkipSpace(cs, i), LAMBDA k :
        IF k > Len(cs) THEN Fail
        ELSE IF cs[k] = 123
        THEN Bind(SkipSpace(cs, k + 1), LAMBDA m :
                 IF m <= Len(cs) /\ cs[m] = 125 THEN Parsed(Dict(<<>>), m + 1)
                 ELSE ParseItems(cs, m, Dict(<<>>)))
        ELSE IF cs[k] = 34 THEN ParseChars(cs, k + 1, <<>>)
        ELSE IF IsDigit(cs[k]) THEN ParseNumber(cs, k)
        ELSE IF SubSeq(cs, k, k + 3) = NULL_TEXT THEN Parsed(None, k + 4)
        ELSE Fail)

\* json.loads(bytes): [ok, v]; not ok is a ValueError
loads(bytes) ==
    IF ~IsText(bytes) THEN Fail
    ELSE Bind(decode(bytes), LAMBDA cs :
         Bind(ParseValue(cs, 1), LAMBDA r :
             IF r.ok /\ SkipSpace(cs, r.i) > Len(cs) THEN r ELSE Fail))

(* ------------------------------ PassVault ------------------------------ *)

\* 'last_modified'
LAST_MODIFIED == <<108, 97, 115, 116, 95, 109, 111, 100, 105, 102, 105, 101, 100>>
\* 'last_revealed'
LAST_REVEALED == <<108, 97, 115, 116, 95, 114, 101, 118, 101, 97, 108, 101, 100>>
BUILTINS == <<LAST_MODIFIED, LAST_REVEALED>>
\* 'password'
PASSWORD == <<112, 97, 115, 115, 119, 111, 114, 100>>
\* '*' * 8
HIDDEN_PASSWORD == Str([i \in 1..8 |-> 42])

\* What a method does: the exception it raises ("ok" for none), the value
\* it returns and self._data when it is left.
Return(ret, data) == [exc |-> "ok", ret |-> ret, data |-> data]
Raise(exc, data) == [exc |-> exc, ret |-> None, data |-> data]

\* vault.seconds_to_human_readable (display only): the display string of a
\* time; of a value that is no time it is either an error or, with a lenient
\* formatter, the display string of the current time t
Display(n) == [t |-> "display", s |-> <<>>, n |-> n, o |-> <<>>]

seconds_to_human_readable(lenient, t, seconds) ==
    IF seconds.t = "num" THEN Return(Display(seconds.n), None)
    ELSE IF lenient THEN Return(Display(t), None)
    ELSE Raise("TypeError", None)

\* PassVault._encode
_encode(data) == encode(dumps(data))

\* PassVault._decode
_decode(data, bytes) ==
    Bind(loads(bytes), LAMBDA r :
        IF r.ok THEN Return(None, r.v) ELSE Raise("CorruptedVaultException", data))

_entry_exists_in_none(data, entry_id) ==
    IF data.t = "obj" THEN Return(Has(data, entry_id), data)
    ELSE Return(FALSE, data)

\* PassVault._entry_exists: entry_id in self._data
_entry_exists(data, entry_id) ==
    IF data.t = "obj" THEN Return(Has(data, entry_id), data)
    ELSE Raise("TypeError", data)

_valid_properties_any_keys(properties) ==
    IF \E i \in 1..Len(properties.o) :
           \E j \in 1..Len(BUILTINS) : properties.o[i][1] = BUILTINS[j]
    THEN "KeyCollisionWithBuiltin"
    ELSE "ok"

\* PassVault._valid_properties: the exception it raises
_valid_properties(properties) ==
    IF \E i \in 1..Len(properties.o) :
           \E j \in 1..Len(BUILTINS) : properties.o[i][1] = BUILTINS[j]
    THEN "KeyCollisionWithBuiltin"
    ELSE IF \A i \in 1..Len(properties.o) : properties.o[i][1] # PASSWORD
    THEN "NoPasswordForEntry"
    ELSE "ok"

add_entry_over_existing(data, t, entry_id, properties, check_existence) ==
    IF check_existence /\ _entry_exists(data, entry_id).exc # "ok"
    THEN Raise(_entry_exists(data, entry_id).exc, data)
    ELSE IF _valid_properties(properties) # "ok"
    THEN Raise(_valid_properties(properties), data)
    ELSE Return(None, Set(data, entry_id,
                          Set(Set(properties, LAST_MODIFIED, Float(t)),
                              LAST_REVEALED, None)))

\* PassVault.add_entry at time t
add_entry(data, t, entry_id, properties, check_existence) ==
    IF check_existence /\ _entry_exists(data, entry_id).exc # "ok"
    THEN Raise(_entry_exists(data, entry_id).exc, data)
    ELSE IF check_existence /\ _entry_exists(data, entry_id).ret
    THEN Raise("EntryAlreadyExists", data)
    ELSE IF _valid_properties(properties) # "ok"
    THEN Raise(_valid_properties(properties), data)
    ELSE Return(None, Set(data, entry_id,
                          Set(Set(properties, LAST_MODIFIED, Float(t)),
                              LAST_REVEALED, None)))

\* what a method that may ask the user does: r, and whether
\* vault.yes_no_prompt was called
Asked(asked, r) == [exc |-> r.exc, ret |-> r.ret, data |-> r.data, asked |-> asked]

del_entry_asking_first(data, entry_id, sure, answer) ==
    IF _entry_exists(data, entry_id).exc # "ok"
    THEN Asked(~sure, Raise(_entry_exists(data, entry_id).exc, data))
    ELSE IF ~_entry_exists(data, entry_id).ret
    THEN Asked(~sure, Raise("EntryDoesNotExist", data))
    ELSE IF ~sure /\ ~answer THEN Asked(TRUE, Return(None, data))
    ELSE Asked(~sure, Raise("TypeError", data))

\* PassVault.del_entry; answer is what the yes/no prompt returns, and the
\* prompt is called when `not sure` is reached and true.
\* The last statement calls dict.pop() of the record without a key.
del_entry(data, entry_id, sure, answer) ==
    IF _entry_exists(data, entry_id).exc # "ok"
    THEN Asked(FALSE, Raise(_entry_exists(data, entry_id).exc, data))
    ELSE IF ~_entry_exists(data, entry_id).ret
    THEN Asked(FALSE, Raise("EntryDoesNotExist", data))
    ELSE IF ~sure /\ ~answer THEN Asked(TRUE, Return(None, data))
    ELSE Asked(~sure, Raise("TypeError", data))

edit_entry_checking_existence(data, t, entry_id, properties, sure, answer) ==
    IF _entry_exists(data, entry_id).exc # "ok"
    THEN Asked(FALSE, Raise(_entry_exists(data, entry_id).exc, data))
    ELSE IF ~_entry_exists(data, entry_id).ret
    THEN Asked(FALSE, Raise("EntryDoesNotExist", data))
    ELSE IF ~sure /\ ~answer THEN Asked(TRUE, Return(None, data))
    ELSE Asked(~sure, add_entry(data, t, entry_id, properties, TRUE))

\* PassVault.edit_entry
edit_entry(data, t, entry_id, properties, sure, answer) ==
    IF _entry_exists(data, entry_id).exc # "ok"
    THEN Asked(FALSE, Raise(_entry_exists(data, entry_id).exc, data))
    ELSE IF ~_entry_exists(data, entry_id).ret
    THEN Asked(FALSE, Raise("EntryDoesNotExist", data))
    ELSE IF ~sure /\ ~answer THEN Asked(TRUE, Return(None, data))
    ELSE Asked(~sure, add_entry(data, t, entry_id, properties, FALSE))

\* d[key] of a record read for display: a missing key is a KeyError
Item(d, key) == IF Has(d, key) THEN Return(Get(d, key), None) ELSE Raise("KeyError", None)

\* a time is true unless it is 0.0; None and '' are false
Truthy(v) ==
    CASE v.t = "num" -> v.n # 0
      [] v.t = "str" -> v.s # <<>>
      [] v.t = "obj" -> v.o # <<>>
      [] v.t = "null" -> FALSE
      [] OTHER -> TRUE

get_entry_of_record(data, t, lenient, entry_id, hide_password) ==
    IF _entry_exists(data, entry_id).exc # "ok"
    THEN Raise(_entry_exists(data, entry_id).exc, data)
    ELSE IF ~_entry_exists(data, entry_id).ret
    THEN Raise("EntryDoesNotExist", data)
    ELSE
    LET record == IF hide_password THEN Get(data, entry_id)
                  ELSE Set(Get(data, entry_id), LAST_REVEALED, Float(t))
        data1 == Set(data, entry_id, record)
        copy_data == IF hide_password
                     THEN Set(Get(data, entry_id), PASSWORD, HIDDEN_PASSWORD)
                     ELSE record
        modified == IF Item(record, LAST_MODIFIED).exc # "ok"
                    THEN Item(record, LAST_MODIFIED)
                    ELSE seconds_to_human_readable(lenient, t, Item(record, LAST_MODIFIED).ret)
        revealed == IF Item(record, LAST_REVEALED).exc # "ok"
                    THEN Item(record, LAST_REVEALED)
                    ELSE IF Truthy(Item(record, LAST_REVEALED).ret)
                    THEN seconds_to_human_readable(lenient, t, Item(record, LAST_REVEALED).ret)
                    ELSE Return(None, None)
    IN  IF modified.exc # "ok" THEN Raise(modified.exc, data1)
        ELSE IF revealed.exc # "ok" THEN Raise(revealed.exc, data1)
        ELSE [exc |-> "ok",
              ret |-> Set(Set(copy_data, LAST_MODIFIED, modified.ret),
                          LAST_REVEALED, revealed.ret),
              data |-> data1,
              is_copy |-> FALSE]

\* PassVault.get_entry.  What it returns is dict(record), an object of its own
\* (is_copy): the caller's changes to it are not changes of the record.
get_entry(data, t, lenient, entry_id, hide_password) ==
    IF _entry_exists(data, entry_id).exc # "ok"
    THEN Raise(_entry_exists(data, entry_id).exc, data)
    ELSE IF ~_entry_exists(data, entry_id).ret
    THEN Raise("EntryDoesNotExist", data)
    ELSE
    LET record == IF hide_password THEN Get(data, entry_id)
                  ELSE Set(Get(data, entry_id), LAST_REVEALED, Float(t))
        data1 == Set(data, entry_id, record)
        copy_data == IF hide_password
                     THEN Set(Get(data, entry_id), PASSWORD, HIDDEN_PASSWORD)
                     ELSE record
        modified == IF Item(record, LAST_MODIFIED).exc # "ok"
                    THEN Item(record, LAST_MODIFIED)
                    ELSE seconds_to_human_readable(lenient, t, Item(record, LAST_MODIFIED).ret)
        revealed == IF Item(record, LAST_REVEALED).exc # "ok"
                    THEN Item(record, LAST_REVEALED)
                    ELSE IF Truthy(Item(record, LAST_REVEALED).ret)
                    THEN seconds_to_human_readable(lenient, t, Item(record, LAST_REVEALED).ret)
                    ELSE Return(None, None)
    IN  IF modified.exc # "ok" THEN Raise(modified.exc, data1)
        ELSE IF revealed.exc # "ok" THEN Raise(revealed.exc, data1)
        ELSE [exc |-> "ok",
              ret |-> Set(Set(copy_data, LAST_MODIFIED, modified.ret),
                          LAST_REVEALED, revealed.ret),
              data |-> data1,
              is_copy |-> TRUE]

get_password_unrecorded(data, t, entry_id) ==
    IF _entry_exists(data, entry_id).exc # "ok"
    THEN Raise(_entry_exists(data, entry_id).exc, data)
    ELSE IF ~_entry_exists(data, entry_id).ret
    THEN Raise("EntryDoesNotExist", data)
    ELSE IF Has(Get(data, entry_id), PASSWORD)
    THEN Return(Get(Get(data, entry_id), PASSWORD), data)
    ELSE Raise("KeyError", data)

\* PassVault.get_password
get_password(data, t, entry_id) ==
    IF _entry_exists(data, entry_id).exc # "ok"
    THEN Raise(_entry_exists(data, entry_id).exc, data)
    ELSE IF ~_entry_exists(data, entry_id).ret
    THEN Raise("EntryDoesNotExist", data)
    ELSE LET data1 == Set(data, entry_id,
                          Set(Get(data, entry_id), LAST_REVEALED, Float(t)))
         IN  IF Has(Get(data, entry_id), PASSWORD)
             THEN Return(Get(Get(data, entry_id), PASSWORD), data1)
             ELSE Raise("KeyError", data1)

\* PassVault.list_entries: the keys of the table
list_entries(data) ==
    IF data.t = "obj" THEN Return(Keys(data), data)
    ELSE Raise("AttributeError", data)

\* the loop of PassVault.summary from the i-th entry on
RECURSIVE summary_loop(_, _, _, _, _, _, _)
summary_loop(data, copy_data, i, t, lenient, only_builtins, hide_passwords) ==
    IF i > Len(data.o) THEN Return(copy_data, data)
    ELSE
    LET entry_id == data.o[i][1]
        reveal == ~only_builtins /\ ~hide_passwords
        record == IF reveal THEN Set(data.o[i][2], LAST_REVEALED, Float(t))
                  ELSE data.o[i][2]
        data1 == Set(data, entry_id, record)
        copy == IF only_builtins THEN Dict(<<>>)
                ELSE IF hide_passwords
                THEN Set(data.o[i][2], PASSWORD, HIDDEN_PASSWORD)
                ELSE data.o[i][2]
        modified == IF Item(record, LAST_MODIFIED).exc # "ok"
                    THEN Item(record, LAST_MODIFIED)
                    ELSE seconds_to_human_readable(lenient, t, Item(record, LAST_MODIFIED).ret)
        revealed == IF Item(record, LAST_REVEALED).exc # "ok"
                    THEN Item(record, LAST_REVEALED)
                    ELSE seconds_to_human_readable(lenient, t, Item(record, LAST_REVEALED).ret)
    IN  IF modified.exc # "ok" THEN Raise(modified.exc, data1)
        ELSE IF revealed.exc # "ok" THEN Raise(revealed.exc, data1)
        ELSE summary_loop(data1,
                          Set(copy_data, entry_id,
                              Set(Set(copy, LAST_MODIFIED, modified.ret),
                                  LAST_REVEALED, revealed.ret)),
                          i + 1, t, lenient, only_builtins, hide_passwords)

summary_hiding(data, t, lenient, only_builtins, hide_passwords) ==
    IF data.t # "obj" THEN Raise("TypeError", data)
    ELSE summary_loop(data, Dict(<<>>), 1, t, lenient, only_builtins, TRUE)

\* PassVault.summary
summary(data, t, lenient, only_builtins, hide_passwords) ==
    IF data.t # "obj" THEN Raise("TypeError", data)
    ELSE summary_loop(data, Dict(<<>>), 1, t, lenient, only_builtins, hide_passwords)

(* ------------------- VaultCore: new / read / write --------------------- *)

Passwords == {"A", "B"}

\* PassVault.__init__: the instance, its master password and its _data
PassVault(master_password) == [pw |-> master_password, data |-> Dict(<<>>)]

NoFile == [exists |-> FALSE, bytes |-> <<>>]

\* what the last _write_to_vault_file put in the file (bookkeeping for the
\* properties; the program does not read it)
NoDisk == [pw |-> "", data |-> <<>>, dirty |-> FALSE]

Header(f) == Take(f.bytes, VAULT_MAGIC_SIZE + SALT_SIZE + IV_SIZE)

Called(op, pw, arg, exc, ret) ==
    [op |-> op, pw |-> pw, arg |-> arg, exc |-> exc, ret |-> ret,
     pre |-> [disk |-> disk, header |-> Header(file), self |-> self]]

\* The oracle tables keep what can still be asked of them.  A key is derived
\* from a salt drawn for one write and kept nowhere but in the file's header,
\* and a digest is taken of ciphertext made for one write: once the file is
\* overwritten, the entries of the earlier key and ciphertext are dropped.
Live(tbl, key) == {e \in tbl : e.key = key}

\* the file system and the bookkeeping after _write_to_vault_file(data)
Rewrite(pw, data) ==
    /\ Len(written) < MaxWrites
    /\ \E w \in {_write_to_vault_file(aes, sha, fresh, pw, data)} :
        /\ file' = w.file
        /\ aes' = Live(w.tbl, _gen_key(pw, w.salt))
        /\ sha' = w.htbl \ sha
        /\ fresh' = w.n
        /\ disk' = [pw |-> pw, data |-> data, dirty |-> FALSE]
        /\ written' = Append(written, <<w.salt, w.iv>>)

Failed == UNCHANGED <<file, aes, sha, fresh, disk, written>>

Untouched == UNCHANGED <<tampers, self, now, running>>

\* VaultCore.new
new(pw) ==
    /\ IF file_exists(file)
       THEN /\ call' = Called("new", pw, <<>>, "VaultFileExists", <<>>)
            /\ Failed
       ELSE IF file = Directory
       THEN \* _write_to_vault_file opens the path for writing
            /\ call' = Called("new", pw, <<>>, "IsADirectoryError", <<>>)
            /\ Failed
       ELSE /\ call' = Called("new", pw, <<>>, "ok", <<>>)
            /\ Rewrite(pw, <<>>)
    /\ Untouched

read_rewriting_when_refused(pw) ==
    /\ IF _check_vault_file(file) # "ok"
       THEN /\ call' = Called("read", pw, <<>>, _check_vault_file(file), <<>>)
            /\ Failed
       ELSE \E r \in _read_from_vault_file(file, aes, pw) :
              /\ call' = Called("read", pw, <<>>, r.exc, r.data)
              /\ Rewrite(pw, r.data)
    /\ Untouched

\* VaultCore.read
read(pw) ==
    /\ IF _check_vault_file(file) # "ok"
       THEN /\ call' = Called("read", pw, <<>>, _check_vault_file(file), <<>>)
            /\ Failed
       ELSE \E r \in _read_from_vault_file(file, aes, pw) :
              IF r.exc # "ok"
              THEN /\ call' = Called("read", pw, <<>>, r.exc, <<>>)
                   /\ Failed
              ELSE /\ call' = Called("read", pw, <<>>, "ok", r.data)
                   /\ Rewrite(pw, r.data)
    /\ Untouched

\* VaultCore.write
write(pw, data) ==
    /\ IF _check_vault_file(file) # "ok"
       THEN /\ call' = Called("write", pw, data, _check_vault_file(file), <<>>)
            /\ Failed
       ELSE /\ call' = Called("write", pw, data, "ok", <<>>)
            /\ Rewrite(pw, data)
    /\ Untouched

(* ----------------------- PassVault: the methods ------------------------ *)

\* latest time of the clock
MaxClock == 2

\* a new PassVault object takes the place of the one in use (the command
\* line makes one for every invocation)
__init__(pw) ==
    /\ self' = PassVault(pw)
    /\ call' = Called("__init__", pw, <<>>, "ok", <<>>)
    /\ Failed
    /\ UNCHANGED <<tampers, now, running>>

\* time passes
Tick ==
    /\ now < MaxClock
    /\ now' = now + 1
    /\ UNCHANGED <<file, aes, sha, fresh, disk, written, tampers, call, self, running>>

\* PassVault.new: super().new is called with an argument it does not take
PassVault_new ==
    /\ \E data \in {_encode(self.data)} :
           call' = Called("PassVault.new", self.pw, <<>>, "TypeError", <<>>)
    /\ Failed
    /\ UNCHANGED <<tampers, self, now, running>>

\* PassVault.load: read(), then _decode of what it returned
load ==
    /\ IF _check_vault_file(file) # "ok"
       THEN /\ call' = Called("load", self.pw, <<>>, _check_vault_file(file), <<>>)
            /\ Failed
            /\ self' = self
       ELSE \E r \in _read_from_vault_file(file, aes, self.pw) :
              IF r.exc # "ok"
              THEN /\ call' = Called("load", self.pw, <<>>, r.exc, <<>>)
                   /\ Failed
                   /\ self' = self
              ELSE /\ Rewrite(self.pw, r.data)
                   /\ \E d \in {_decode(self.data, r.data)} :
                        /\ call' = Called("load", self.pw, <<>>, d.exc, <<>>)
                        /\ self' = [self EXCEPT !.data = d.data]
    /\ UNCHANGED <<tampers, now, running>>

\* PassVault.save: _encode, write(), then _data = None
save ==
    /\ \E data \in {_encode(self.data)} :
         IF _check_vault_file(file) # "ok"
         THEN /\ call' = Called("save", self.pw, <<>>, _check_vault_file(file), <<>>)
              /\ Failed
              /\ self' = self
         ELSE /\ call' = Called("save", self.pw, <<>>, "ok", <<>>)
              /\ Rewrite(self.pw, data)
              /\ self' = [self EXCEPT !.data = None]
    /\ UNCHANGED <<tampers, now, running>>

\* a method that works on the table alone, r what it does
OnTable(op, arg, r) ==
    /\ call' = Called(op, self.pw, arg, r.exc, r.ret)
    /\ self' = [self EXCEPT !.data = r.data]
    /\ Failed
    /\ UNCHANGED <<tampers, now, running>>

AddEntry(entry_id, properties) ==
    OnTable("add_entry", [entry_id |-> entry_id, properties |-> properties],
            add_entry(self.data, now, entry_id, properties, TRUE))

DelEntry(entry_id, sure, answer) ==
    \E r \in {del_entry(self.data, entry_id, sure, answer)} :
        OnTable("del_entry",
                [entry_id |-> entry_id, sure |-> sure, answer |-> answer,
                 asked |-> r.asked],
                r)

EditEntry(entry_id, properties, sure, answer) ==
    \E r \in {edit_entry(self.data, now, entry_id, properties, sure, answer)} :
        OnTable("edit_entry",
                [entry_id |-> entry_id, properties |-> properties,
                 sure |-> sure, answer |-> answer, asked |-> r.asked],
                r)

GetEntry(lenient, entry_id, hide_password) ==
    OnTable("get_entry", [entry_id |-> entry_id, hide_password |-> hide_password],
            get_entry(self.data, now, lenient, entry_id, hide_password))

\* the caller of get_entry sets a key of the dict it was given:
\* copy_data = get_entry(...); copy_data[key] = value
ChangeReturned(lenient, entry_id, hide_password, key, value) ==
    \E r \in {get_entry(self.data, now, lenient, entry_id, hide_password)} :
        /\ r.exc = "ok"
        /\ OnTable("get_entry, change",
                   [entry_id |-> entry_id, hide_password |-> hide_password,
                    key |-> key, value |-> value],
                   [exc |-> "ok",
                    ret |-> Set(r.ret, key, value),
                    data |-> IF r.is_copy THEN r.data
                             ELSE Set(r.data, entry_id,
                                      Set(Get(r.data, entry_id), key, value))])

GetPassword(entry_id) ==
    OnTable("get_password", [entry_id |-> entry_id],
            get_password(self.data, now, entry_id))

ListEntries ==
    OnTable("list_entries", <<>>, list_entries(self.data))

Summary(lenient, only_builtins, hide_passwords) ==
    OnTable("summary",
            [only_builtins |-> only_builtins, hide_passwords |-> hide_passwords],
            summary(self.data, now, lenient, only_builtins, hide_passwords))

(* ----------------------- other users of the path ---------------------- *)

\* files that are no vault files: an empty one, 'PVL' and 'PVLU'
OtherFiles == {<<>>, Lits(<<80, 86, 76>>), Lits(<<80, 86, 76, 85>>)}

\* a directory is made at the path
Mkdir ==
    /\ ~file.exists
    /\ file' = Directory
    /\ call' = Called("mkdir", "", <<>>, "ok", <<>>)
    /\ UNCHANGED <<aes, sha, fresh, disk, written, tampers, self, now, running>>

\* another program writes a file at the path
OtherFile(bytes) ==
    /\ ~file.exists
    /\ file' = [exists |-> TRUE, bytes |-> bytes]
    /\ call' = Called("other file", "", bytes, "ok", <<>>)
    /\ UNCHANGED <<aes, sha, fresh, disk, written, tampers, self, now, running>>

(* ------------------------- the file's adversary ------------------------ *)

\* largest XOR difference applied to a byte
MaxDelta == 1

CiphertextLen(f) ==
    Len(f.bytes) - (VAULT_MAGIC_SIZE + SALT_SIZE + IV_SIZE + SHA512_SIZE + SHA512_SIZE)

\* one byte of the CIPHERTEXT field of an intact vault file is altered
Tamper(pos, delta) ==
    /\ tampers < MaxTampers
    /\ _is_vault_file(file)
    /\ ~disk.dirty
    /\ pos \in 1..CiphertextLen(file)
    /\ LET at == VAULT_MAGIC_SIZE + SALT_SIZE + IV_SIZE + pos
       IN  file' = [file EXCEPT !.bytes[at] = XorByte(@, Lit(delta))]
    /\ disk' = [disk EXCEPT !.dirty = TRUE]
    /\ tampers' = tampers + 1
    /\ call' = Called("tamper", "", <<>>, "ok", <<>>)
    /\ UNCHANGED <<aes, sha, fresh, written, self, now, running>>

\* the bytes the adversary alters: the first and the last byte of the first
\* and of the second ciphertext block
TamperAt == {1, BLOCK_SIZE, BLOCK_SIZE + 1, 2 * BLOCK_SIZE}

\* payloads of the lengths around the padding boundaries; the byte 1 is also
\* the shortest padding
PayloadLens == {0, 1, MaxLen - 2, MaxLen - 1, MaxLen}

Payloads == {[i \in 1..n |-> Lit(1)] : n \in PayloadLens}

\* the invocations that may overlap
Invocations == {1, 2}

\* an invocation that has not begun.  pc is where it stands: "idle", "checked"
\* (_check_vault_file passed, the file is to be read), "ready" (the file is
\* to be written) or "done"; data is what it will write; held is what the
\* file held for its owner when the invocation read it, saw the number of
\* writes made when it last looked at the file and at the number of its own
\* write.
Idle ==
    [op |-> "none", pw |-> "", arg |-> <<>>, pc |-> "idle", exc |-> "ok",
     data |-> <<>>, held |-> <<>>, saw |-> 0, at |-> 0]

Init ==
    /\ running = [i \in Invocations |-> Idle]
    /\ file = NoFile
    /\ aes = {}
    /\ sha = {}
    /\ fresh = 1
    /\ disk = NoDisk
    /\ written = <<>>
    /\ tampers = 0
    /\ call = [op |-> "init", pw |-> "", arg |-> <<>>, exc |-> "ok", ret |-> <<>>,
               pre |-> [disk |-> NoDisk, header |-> <<>>, self |-> PassVault("A")]]
    /\ self = PassVault("A")
    /\ now = 1

Next ==
    \/ \E pw \in Passwords : new(pw)
    \/ \E pw \in Passwords : read(pw)
    \/ \E pw \in Passwords, data \in Payloads : write(pw, data)
    \/ \E pos \in TamperAt, delta \in 1..MaxDelta : Tamper(pos, delta)
    \/ Mkdir
    \/ \E bytes \in OtherFiles : OtherFile(bytes)

Spec == Init /\ [][Next]_vars

(* ----------------------- overlapping invocations ----------------------- *)

\* what write() is given when invocations overlap
RacePayloads == {<<Lit(1)>>, <<Lit(1), Lit(1)>>}

\* the first access of read() and of write(): _check_vault_file
Check(i, op, pw, data) ==
    /\ running[i].pc = "idle"
    /\ IF _check_vault_file(file) # "ok"
       THEN /\ running' = [running EXCEPT ![i] =
                   [Idle EXCEPT !.op = op, !.pw = pw, !.arg = data,
                                !.pc = "done", !.exc = _check_vault_file(file)]]
            /\ call' = Called(op, pw, data, _check_vault_file(file), <<>>)
       ELSE /\ running' = [running EXCEPT ![i] =
                   [Idle EXCEPT !.op = op, !.pw = pw, !.arg = data, !.data = data,
                                !.saw = Len(written),
                                !.pc = IF op = "read" THEN "checked" ELSE "ready"]]
            /\ call' = call
    /\ Failed
    /\ UNCHANGED <<tampers, self, now>>

\* the second access of read(): _read_from_vault_file
ReadFile(i) ==
    /\ running[i].pc = "checked"
    /\ \E r \in _read_from_vault_file(file, aes, running[i].pw) :
          IF r.exc # "ok"
          THEN /\ running' = [running EXCEPT ![i].pc = "done", ![i].exc = r.exc]
               /\ call' = Called("read", running[i].pw, <<>>, r.exc, <<>>)
          ELSE /\ running' = [running EXCEPT ![i].pc = "ready", ![i].data = r.data,
                                            ![i].held = disk.data,
                                            ![i].saw = Len(written)]
               /\ call' = call
    /\ Failed
    /\ UNCHANGED <<tampers, self, now>>

WriteFile_reading_again(i) ==
    /\ running[i].pc = "ready"
    /\ call' = Called(running[i].op, running[i].pw, running[i].arg, "ok",
                      IF running[i].op = "read" THEN running[i].data ELSE <<>>)
    /\ Rewrite(running[i].pw,
               IF running[i].op = "read" THEN disk.data ELSE running[i].data)
    /\ running' = [running EXCEPT ![i].pc = "done", ![i].at = Len(written) + 1]
    /\ UNCHANGED <<tampers, self, now>>

\* the last access of read() and of write(): _write_to_vault_file
WriteFile(i) ==
    /\ running[i].pc = "ready"
    /\ call' = Called(running[i].op, running[i].pw, running[i].arg, "ok",
                      IF running[i].op = "read" THEN running[i].data ELSE <<>>)
    /\ Rewrite(running[i].pw, running[i].data)
    /\ running' = [running EXCEPT ![i].pc = "done", ![i].at = Len(written) + 1]
    /\ UNCHANGED <<tampers, self, now>>

NextRace ==
    \/ \E pw \in Passwords : new(pw)
    \/ \E i \in Invocations, pw \in Passwords : Check(i, "read", pw, <<>>)
    \/ \E i \in Invocations, pw \in Passwords, data \in RacePayloads :
           Check(i, "write", pw, data)
    \/ \E i \in Invocations : ReadFile(i)
    \/ \E i \in Invocations : WriteFile(i)

SpecRace == Init /\ [][NextRace]_vars

(* ------------------------ the entry table alone ------------------------ *)

\* 'a', 'b'
EntryIds == {<<97>>, <<98>>}

\* 'note'
NOTE == <<110, 111, 116, 101>>

\* {'password': 'x'} and {'note': 'n', 'password': 'y'}
ValidProperties ==
    {Dict(<< <<PASSWORD, Str(<<120>>)>> >>),
     Dict(<< <<NOTE, Str(<<110>>)>>, <<PASSWORD, Str(<<121>>)>> >>)}

\* {'note': 'n'}, {'password': 'x', 'last_revealed': 'z'} and
\* {'last_modified': 'z'}
InvalidProperties ==
    {Dict(<< <<NOTE, Str(<<110>>)>> >>),
     Dict(<< <<PASSWORD, Str(<<120>>)>>, <<LAST_REVEALED, Str(<<122>>)>> >>),
     Dict(<< <<LAST_MODIFIED, Str(<<122>>)>> >>)}

Properties == ValidProperties \cup InvalidProperties

\* the answers of the prompt that matter: it is asked only when sure is false
Confirmations == {<<TRUE, TRUE>>, <<FALSE, TRUE>>, <<FALSE, FALSE>>}

\* what edit_entry is called with: any properties when sure, and the prompt
\* with the valid properties and with properties that lack the password (the
\* prompt comes before the properties are looked at)
Edits ==
    (Properties \X {<<TRUE, TRUE>>})
    \cup ((ValidProperties \cup {Dict(<< <<NOTE, Str(<<110>>)>> >>)}) \X Confirmations)

NextEntries ==
    \/ Tick
    \/ \E entry_id \in EntryIds, properties \in Properties :
           AddEntry(entry_id, properties)
    \/ \E entry_id \in EntryIds, c \in Confirmations : DelEntry(entry_id, c[1], c[2])
    \/ \E entry_id \in EntryIds, e \in Edits :
           EditEntry(entry_id, e[1], e[2][1], e[2][2])
    \/ \E entry_id \in EntryIds, hide_password \in BOOLEAN :
           GetEntry(TRUE, entry_id, hide_password)
    \/ \E entry_id \in EntryIds : GetPassword(entry_id)
    \/ ListEntries
    \/ \E lenient, only_builtins, hide_passwords \in BOOLEAN :
           Summary(lenient, only_builtins, hide_passwords)
    \/ \E entry_id \in EntryIds, hide_password \in BOOLEAN :
           ChangeReturned(TRUE, entry_id, hide_password, PASSWORD, Str(<<99>>))

SpecEntries == Init /\ [][NextEntries]_vars

(* --------------------- the entry table and its file -------------------- *)

\* what the instances of this specification put in the table
StoreProperties == {Dict(<< <<NOTE, Str(<<110>>)>>, <<PASSWORD, Str(<<121>>)>> >>)}

NextStore ==
    \/ \E pw \in Passwords : __init__(pw)
    \/ new(self.pw)
    \/ PassVault_new
    \/ load
    \/ save
    \/ \E entry_id \in EntryIds, properties \in StoreProperties :
           AddEntry(entry_id, properties)
    \/ \E entry_id \in EntryIds : DelEntry(entry_id, TRUE, TRUE)
    \/ \E entry_id \in EntryIds, properties \in StoreProperties :
           EditEntry(entry_id, properties, TRUE, TRUE)
    \/ ListEntries

SpecStore == Init /\ [][NextStore]_vars

(* ---------------------- the fields of a vault file ---------------------- *)

HEADER_SIZE == VAULT_MAGIC_SIZE + SALT_SIZE + IV_SIZE

FieldMagic(f) == Take(f.bytes, VAULT_MAGIC_SIZE)
FieldSalt(f) == Take(Drop(f.bytes, VAULT_MAGIC_SIZE), SALT_SIZE)
FieldIv(f) == Take(Drop(f.bytes, VAULT_MAGIC_SIZE + SALT_SIZE), IV_SIZE)
FieldCiphertext(f) == ButLast(Drop(f.bytes, HEADER_SIZE), 2 * SHA512_SIZE)
FieldEncryptedTag(f) == Take(Last(f.bytes, 2 * SHA512_SIZE), SHA512_SIZE)
FieldPlainTag(f) == Last(f.bytes, SHA512_SIZE)

ReadBy(pw) == call.op = "read" /\ call.pw = pw

\* a read of a file that exists and was last written under the reader's password
OwnerRead == call.op = "read" /\ call.pre.disk.pw # "" /\ call.pw = call.pre.disk.pw

(* ------------------------------ C1 ------------------------------------- *)

\* C1: when one byte of the CIPHERTEXT field of a valid vault file has been
\* altered, read() with the password the file was written under raises
\* VaultMasterPasswordIncorrect (and so returns no plaintext).
C1_TamperDetected ==
    (OwnerRead /\ call.pre.disk.dirty) => call.exc = "VaultMasterPasswordIncorrect"

(* ------------------------------ C2 ------------------------------------- *)

\* C2: read() with the password the file was written under returns exactly
\* the payload that was written, whatever its length, and unpad undoes pad
\* on every payload.
C2_RoundTrip ==
    /\ (OwnerRead /\ ~call.pre.disk.dirty) =>
           (call.exc = "ok" /\ call.ret = call.pre.disk.data)
    /\ \A d \in Payloads :
           pad(d, BLOCK_SIZE) # <<>> /\ unpad(pad(d, BLOCK_SIZE)) = {d}

\* a 16-byte payload was written and read back
C2_Witness ==
    /\ OwnerRead /\ ~call.pre.disk.dirty
    /\ call.exc = "ok"
    /\ Len(call.ret) = BLOCK_SIZE

(* ------------------------------ C3 ------------------------------------- *)

\* C3: read() of a vault file by an instance whose master password differs
\* from the one the file was written under raises VaultMasterPasswordIncorrect
\* and returns nothing.
C3_WrongPassword ==
    (call.op = "read" /\ call.pre.disk.pw # "" /\ call.pw # call.pre.disk.pw) =>
        (call.exc = "VaultMasterPasswordIncorrect" /\ call.ret = <<>>)

\* a file written under A with a 17-byte payload was read under B
C3_Witness ==
    /\ ReadBy("B") /\ call.pre.disk.pw = "A"
    /\ Len(call.pre.disk.data) = BLOCK_SIZE + 1
    /\ call.exc = "VaultMasterPasswordIncorrect"

(* ------------------------------ C4 ------------------------------------- *)

NoRepeats(seq) == \A i, j \in 1..Len(seq) : i # j => seq[i] # seq[j]

\* C4: no salt/iv pair is written to the file twice, and a successful read()
\* leaves a file whose salt/iv pair differs from the one it read and which
\* decrypts to the plaintext the read returned.
C4_Freshness ==
    /\ NoRepeats(written)
    /\ (call.op = "read" /\ call.exc = "ok") =>
          /\ <<FieldSalt(file), FieldIv(file)>> = written[Len(written)]
          /\ Take(Drop(call.pre.header, VAULT_MAGIC_SIZE), SALT_SIZE) # FieldSalt(file)
          /\ Drop(call.pre.header, VAULT_MAGIC_SIZE + SALT_SIZE) # FieldIv(file)
          /\ _read_from_vault_file(file, aes, call.pw) = {[exc |-> "ok", data |-> call.ret]}

\* two reads in a row have succeeded
C4_Witness ==
    /\ call.op = "read" /\ call.exc = "ok"
    /\ Len(written) = 3
    /\ call.ret = <<>>

(* ------------------------------ C5 ------------------------------------- *)

\* C5: after a successful new/read/write the file is
\* 'PVLT' | salt(8) | iv(16) | ciphertext(N) | encrypted tag(64) | tag(64)
\* with N = 16 * (len(plaintext) div 16 + 1), 1..16 bytes of padding, a total
\* length of 156 + N, and the plain tag the digest of the ciphertext.
C5_Layout ==
    (call.op \in {"new", "read", "write"} /\ call.exc = "ok") =>
        LET N == 16 * ((Len(disk.data) \div 16) + 1)
            key == _gen_key(disk.pw, FieldSalt(file))
        IN  /\ Len(file.bytes) = 156 + N
            /\ FieldMagic(file) = Lits(<<80, 86, 76, 84>>)
            /\ <<FieldSalt(file), FieldIv(file)>> = written[Len(written)]
            /\ Len(FieldCiphertext(file)) = N
            /\ N - Len(disk.data) \in 1..16
            /\ CbcDecrypt(aes, key, FieldIv(file), FieldCiphertext(file), 1)
                 = disk.data \o [i \in 1..(N - Len(disk.data)) |-> Lit(N - Len(disk.data))]
            /\ CbcDecrypt(aes, key, Last(FieldCiphertext(file), BLOCK_SIZE),
                          FieldEncryptedTag(file), 1) = FieldPlainTag(file)
            /\ \E e \in sha : e.data = FieldCiphertext(file)
                                 /\ FieldPlainTag(file) = Digest(e.id)

\* a 16-byte payload was written: two ciphertext blocks, 188 bytes
C5_Witness ==
    /\ call.op = "write" /\ call.exc = "ok"
    /\ Len(call.arg) = BLOCK_SIZE
    /\ Len(file.bytes) = 188

(* ------------------------------ C6 ------------------------------------- *)

\* C6: for an id present in the table, del_entry(id, sure=True) returns
\* without error, after which the id is not in list_entries(), get_entry(id)
\* and get_password(id) raise EntryDoesNotExist, and every other entry is as
\* it was.
C6_DeleteRemoves ==
    (/\ call.op = "del_entry"
     /\ call.arg.sure
     /\ call.pre.self.data.t = "obj"
     /\ Has(call.pre.self.data, call.arg.entry_id)) =>
        /\ call.exc = "ok"
        /\ \A i \in 1..Len(list_entries(self.data).ret) :
               list_entries(self.data).ret[i] # call.arg.entry_id
        /\ get_entry(self.data, now, TRUE, call.arg.entry_id, TRUE).exc
               = "EntryDoesNotExist"
        /\ get_password(self.data, now, call.arg.entry_id).exc = "EntryDoesNotExist"
        /\ \A other \in EntryIds \ {call.arg.entry_id} :
               /\ Has(self.data, other) = Has(call.pre.self.data, other)
               /\ Has(self.data, other) =>
                      Get(self.data, other) = Get(call.pre.self.data, other)

(* ------------------------------ C7 ------------------------------------- *)

\* the payload of a file that save() wrote from a table
SavedTable(d) == d.pw # "" /\ d.data # <<>> /\ d.data # encode(NULL_TEXT)

\* C7: PassVault.new() on a path without a file creates the vault; save()
\* persists the table it holds; load() with the password of the save then
\* holds that table again - list_entries() is the saved ids and
\* get_password(id) the password given to add_entry - and load() with another
\* password raises VaultMasterPasswordIncorrect.
C7_StoreRoundTrip ==
    /\ (call.op = "PassVault.new" /\ call.pre.disk.pw = "") =>
           (call.exc = "ok" /\ _is_vault_file(file))
    /\ (call.op = "save" /\ call.exc = "ok") =>
           disk.data = _encode(call.pre.self.data)
    /\ (call.op = "load" /\ SavedTable(call.pre.disk) /\ call.pw = call.pre.disk.pw) =>
           /\ call.exc = "ok"
           /\ self.data.t = "obj"
           /\ _encode(self.data) = call.pre.disk.data
           /\ \A i \in 1..Len(self.data.o) :
                  /\ list_entries(self.data).ret[i] = self.data.o[i][1]
                  /\ get_password(self.data, now, self.data.o[i][1]).ret
                         \in {Get(p, PASSWORD) : p \in StoreProperties}
    /\ (call.op = "load" /\ call.pre.disk.pw # "" /\ call.pw # call.pre.disk.pw) =>
           call.exc = "VaultMasterPasswordIncorrect"

(* ------------------------------ C8 ------------------------------------- *)

\* C8: on a table, add_entry raises EntryAlreadyExists when the id is
\* present, else KeyCollisionWithBuiltin when the properties contain
\* last_modified or last_revealed, else NoPasswordForEntry when they have no
\* 'password' key; del_entry, get_entry and get_password of an absent id raise
\* EntryDoesNotExist; in each of these cases the table is left as it was.
C8_Validation ==
    /\ (call.op = "add_entry" /\ call.pre.self.data.t = "obj") =>
           IF Has(call.pre.self.data, call.arg.entry_id)
           THEN call.exc = "EntryAlreadyExists" /\ self = call.pre.self
           ELSE IF \/ Has(call.arg.properties, LAST_MODIFIED)
                   \/ Has(call.arg.properties, LAST_REVEALED)
           THEN call.exc = "KeyCollisionWithBuiltin" /\ self = call.pre.self
           ELSE IF ~Has(call.arg.properties, PASSWORD)
           THEN call.exc = "NoPasswordForEntry" /\ self = call.pre.self
           ELSE call.exc = "ok"
    /\ (/\ call.op \in {"del_entry", "get_entry", "get_password"}
        /\ call.pre.self.data.t = "obj"
        /\ ~Has(call.pre.self.data, call.arg.entry_id)) =>
           (call.exc = "EntryDoesNotExist" /\ self = call.pre.self)

\* add_entry of an absent id with {'last_modified': 'z'}, which has a builtin
\* key and no password, was refused on a table that holds the other entry
C8_Witness ==
    /\ call.op = "add_entry"
    /\ call.exc = "KeyCollisionWithBuiltin"
    /\ ~Has(call.arg.properties, PASSWORD)
    /\ Len(self.data.o) = 1
    /\ ~Has(self.data, call.arg.entry_id)

(* ------------------------------ C9 ------------------------------------- *)

\* a time the clock has shown
IsTime(v) == v.t = "num" /\ v.n \in 1..now

\* C9: in every state reached from the empty table by add_entry, edit_entry,
\* del_entry, get_entry, get_password and summary calls, every record has a
\* 'password' key, a last_modified that is a time the vault read from the
\* clock and a last_revealed that is such a time or None.
C9_TableInvariant ==
    /\ self.data.t = "obj"
    /\ \A i \in 1..Len(self.data.o) :
           LET record == self.data.o[i][2]
           IN  /\ record.t = "obj"
               /\ Has(record, PASSWORD)
               /\ Has(record, LAST_MODIFIED)
               /\ IsTime(Get(record, LAST_MODIFIED))
               /\ Has(record, LAST_REVEALED)
               /\ Get(record, LAST_REVEALED) = None \/ IsTime(Get(record, LAST_REVEALED))

\* an edit with a builtin key was refused on a table of two records, one of
\* them revealed at the later time
C9_Witness ==
    /\ call.op = "edit_entry"
    /\ call.exc = "KeyCollisionWithBuiltin"
    /\ Len(self.data.o) = 2
    /\ \E i \in 1..2 : Get(self.data.o[i][2], LAST_REVEALED) = Float(MaxClock)
    /\ \E i \in 1..2 : Get(self.data.o[i][2], LAST_REVEALED) = None

(* ------------------------------ C10 ------------------------------------ *)

Mutators == {"add_entry", "edit_entry", "del_entry"}

\* C10: a successful save() leaves the instance without a table; while it
\* has none, add_entry, edit_entry and del_entry raise and change neither
\* the instance nor the file, and only a successful load() gives the instance
\* a table again.
C10_SaveDiscards ==
    [][/\ (call'.op = "save" /\ call'.exc = "ok") => self'.data = None
       /\ (self.data = None /\ call'.op \in Mutators) =>
              (call'.exc # "ok" /\ self' = self /\ file' = file /\ disk' = disk)
       /\ (self.data = None /\ call'.op # "__init__" /\ self'.data # None) =>
              (call'.op = "load" /\ call'.exc = "ok")]_vars

\* add_entry was refused after the save of a table of two entries
C10_Witness ==
    /\ call.op = "add_entry"
    /\ call.pre.self.data = None
    /\ call.exc = "TypeError"
    /\ self.data = None
    /\ SavedTable(disk)
    /\ Len(disk.data) > 100

(* ------------------------------ C11 ------------------------------------ *)

\* last_revealed of the entry entry_id of a table
Revealed(data, entry_id) == Get(Get(data, entry_id), LAST_REVEALED)

\* a step of a method, called at the time `now`: every step but the clock's
MethodStep == now' = now

\* C11: get_password(id) and get_entry(id, hide_password=False) return the
\* stored password and set the record's last_revealed to the time of the
\* call, which is not before the earlier last_revealed nor before
\* last_modified; in no step other than an edit of the entry does its
\* last_revealed decrease or return to None.
C11_RevealTracking ==
    [][MethodStep =>
       /\ (/\ call'.exc = "ok"
           /\ \/ call'.op = "get_password"
              \/ call'.op = "get_entry" /\ ~call'.arg.hide_password) =>
              LET id == call'.arg.entry_id
                  old == Get(self.data, id)
              IN  /\ IF call'.op = "get_password"
                     THEN call'.ret = Get(old, PASSWORD)
                     ELSE Get(call'.ret, PASSWORD) = Get(old, PASSWORD)
                  /\ Revealed(self'.data, id) = Float(now)
                  /\ Get(old, LAST_MODIFIED).n <= now
                  /\ Get(old, LAST_REVEALED) # None =>
                         Get(old, LAST_REVEALED).n <= now
       /\ \A id \in EntryIds :
              (/\ ~(call'.op = "edit_entry" /\ call'.arg.entry_id = id)
               /\ Has(self.data, id)
               /\ Has(self'.data, id)) =>
                  \E before \in {Revealed(self.data, id)},
                     after \in {Revealed(self'.data, id)} :
                      before # None =>
                          (after.t = "num" /\ after.n >= before.n)]_vars

\* the password of an entry revealed at the first time was asked for again
\* at the last time
C11_Witness ==
    /\ call.op = "get_password"
    /\ call.exc = "ok"
    /\ Revealed(call.pre.self.data, call.arg.entry_id) = Float(1)
    /\ Revealed(self.data, call.arg.entry_id) = Float(MaxClock)
    /\ call.ret = Str(<<121>>)

(* ------------------------------ C12 ------------------------------------ *)

\* C12: get_entry(id, hide_password=True) returns the record with the filler
\* in place of the password; it, list_entries() and
\* summary(hide_passwords=True) leave the table as it was, and so does a
\* change the caller makes to the dict get_entry returned.
C12_ReadsChangeNothing ==
    [][MethodStep =>
       /\ (call'.op = "get_entry" /\ call'.arg.hide_password) =>
              /\ self' = self
              /\ call'.exc = "ok" =>
                     /\ Get(call'.ret, PASSWORD) = HIDDEN_PASSWORD
                     /\ Get(call'.ret, PASSWORD)
                            # Get(Get(self.data, call'.arg.entry_id), PASSWORD)
       /\ call'.op = "list_entries" => self' = self
       /\ (call'.op = "summary" /\ call'.arg.hide_passwords) => self' = self
       /\ call'.op = "get_entry, change" =>
              self'.data = get_entry(self.data, now, TRUE, call'.arg.entry_id,
                                     call'.arg.hide_password).data]_vars

\* the caller has put a password of its own in the dict that
\* get_entry(hide_password=True) returned for an entry revealed before, in a
\* table of two entries
C12_Witness ==
    /\ call.op = "get_entry, change"
    /\ call.arg.hide_password
    /\ Get(call.ret, PASSWORD) = Str(<<99>>)
    /\ Len(self.data.o) = 2
    /\ Revealed(self.data, call.arg.entry_id) # None
    /\ Get(Get(self.data, call.arg.entry_id), PASSWORD) = Str(<<121>>)

(* ------------------------------ C13 ------------------------------------ *)

\* properties a record can be made of: a 'password' key and no builtin key
Valid(properties) ==
    /\ Has(properties, PASSWORD)
    /\ ~Has(properties, LAST_MODIFIED)
    /\ ~Has(properties, LAST_REVEALED)

\* the entries other than entry_id are the same in both tables
OthersSame(data1, data2, entry_id) ==
    \A other \in EntryIds \ {entry_id} :
        /\ Has(data1, other) = Has(data2, other)
        /\ Has(data1, other) => Get(data1, other) = Get(data2, other)

\* C13: edit_entry(id, properties, sure=True) of a present id with valid
\* properties leaves the record with exactly the items of properties,
\* last_modified the time of the call and last_revealed None, and every
\* other entry as it was; of an absent id it raises EntryDoesNotExist and
\* the table is as it was.
C13_EditOverwrites ==
    [][(MethodStep /\ call'.op = "edit_entry") =>
          LET id == call'.arg.entry_id
              properties == call'.arg.properties
          IN  IF ~Has(self.data, id)
              THEN call'.exc = "EntryDoesNotExist" /\ self' = self
              ELSE (call'.arg.sure /\ Valid(properties)) =>
                     /\ call'.exc = "ok"
                     /\ Get(self'.data, id)
                          = Dict(properties.o \o << <<LAST_MODIFIED, Float(now)>>,
                                                    <<LAST_REVEALED, None>> >>)
                     /\ Keys(self'.data) = Keys(self.data)
                     /\ OthersSame(self'.data, self.data, id)]_vars

\* an entry with a note, revealed at the first time, was edited at the last
\* time with properties that have no note, in a table of two entries
C13_Witness ==
    /\ call.op = "edit_entry"
    /\ call.exc = "ok"
    /\ call.arg.sure
    /\ Len(self.data.o) = 2
    /\ Has(Get(call.pre.self.data, call.arg.entry_id), NOTE)
    /\ Revealed(call.pre.self.data, call.arg.entry_id) = Float(1)
    /\ ~Has(Get(self.data, call.arg.entry_id), NOTE)
    /\ Get(Get(self.data, call.arg.entry_id), LAST_MODIFIED) = Float(MaxClock)
    /\ Revealed(self.data, call.arg.entry_id) = None

(* ------------------------------ C14 ------------------------------------ *)

\* a file, and not a directory, is at the path
IsFile(f) == f.exists /\ f # Directory

\* C14: new() raises VaultFileExists when something is at the path; read()
\* and write() raise VaultFileDoesNotExist when no file is there, else
\* InvalidVaultFormat when the file's first four bytes are not 'PVLT'; each
\* of these calls leaves what is at the path as it was.
C14_PreChecks ==
    [][/\ (call'.op = "new" /\ file.exists) =>
              (call'.exc = "VaultFileExists" /\ file' = file)
       /\ (call'.op \in {"read", "write"} /\ ~IsFile(file)) =>
              (call'.exc = "VaultFileDoesNotExist" /\ file' = file)
       /\ (/\ call'.op \in {"read", "write"}
           /\ IsFile(file)
           /\ Take(file.bytes, 4) # Lits(<<80, 86, 76, 84>>)) =>
              (call'.exc = "InvalidVaultFormat" /\ file' = file)]_vars

(* ------------------------------ C15 ------------------------------------ *)

KeySet(d) == {d.o[i][1] : i \in 1..Len(d.o)}

\* the items of a record under the keys that are no builtins
UserItems(record) ==
    {record.o[i] : i \in {k \in 1..Len(record.o) :
                             record.o[k][1] \notin {LAST_MODIFIED, LAST_REVEALED}}}

\* C15: summary(only_builtins=False, hide_passwords=False) returns, for every
\* entry of the table, the record with its stored password and its other
\* fields, and leaves every entry's last_revealed at the time of the call and
\* the rest of the table as it was; when summary(only_builtins=True, ...)
\* returns, it has for every entry the two builtin fields and nothing else.
C15_Summary ==
    [][(MethodStep /\ call'.op = "summary") =>
       /\ (~call'.arg.only_builtins /\ ~call'.arg.hide_passwords) =>
              /\ call'.exc = "ok"
              /\ Keys(call'.ret) = Keys(self.data)
              /\ Keys(self'.data) = Keys(self.data)
              /\ \A i \in 1..Len(self.data.o) :
                     LET old == self.data.o[i][2]
                         shown == call'.ret.o[i][2]
                         kept == self'.data.o[i][2]
                     IN  /\ Get(shown, PASSWORD) = Get(old, PASSWORD)
                         /\ KeySet(shown) = KeySet(old)
                         /\ UserItems(shown) = UserItems(old)
                         /\ Get(kept, LAST_REVEALED) = Float(now)
                         /\ Get(kept, LAST_MODIFIED) = Get(old, LAST_MODIFIED)
                         /\ KeySet(kept) = KeySet(old)
                         /\ UserItems(kept) = UserItems(old)
       /\ (call'.arg.only_builtins /\ call'.exc = "ok") =>
              /\ Keys(call'.ret) = Keys(self.data)
              /\ \A i \in 1..Len(call'.ret.o) :
                     KeySet(call'.ret.o[i][2]) = {LAST_MODIFIED, LAST_REVEALED}]_vars

\* the passwords of two entries, one of them never revealed and the other
\* revealed at the first time, were shown by summary at the last time
C15_Witness ==
    /\ call.op = "summary"
    /\ call.exc = "ok"
    /\ ~call.arg.only_builtins /\ ~call.arg.hide_passwords
    /\ Len(call.ret.o) = 2
    /\ \E i \in 1..2 : Get(call.pre.self.data.o[i][2], LAST_REVEALED) = None
    /\ \E i \in 1..2 : Get(call.pre.self.data.o[i][2], LAST_REVEALED) = Float(1)
    /\ \A i \in 1..2 : Get(self.data.o[i][2], LAST_REVEALED) = Float(MaxClock)
    /\ \E i \in 1..2 : Get(call.ret.o[i][2], PASSWORD) = Str(<<121>>)

(* ------------------------------ C16 ------------------------------------ *)

\* C16: edit_entry and del_entry of a present id with sure=False and the
\* prompt answering no return without error and leave the table as it was;
\* of an absent id they raise EntryDoesNotExist without asking the prompt.
C16_Declined ==
    (call.op \in {"edit_entry", "del_entry"} /\ call.pre.self.data.t = "obj") =>
        IF Has(call.pre.self.data, call.arg.entry_id)
        THEN (~call.arg.sure /\ ~call.arg.answer) =>
                 (call.exc = "ok" /\ self = call.pre.self)
        ELSE /\ call.exc = "EntryDoesNotExist"
             /\ ~call.arg.asked
             /\ self = call.pre.self

\* the deletion of one of two entries was asked about and declined
C16_Witness ==
    /\ call.op = "del_entry"
    /\ ~call.arg.sure /\ ~call.arg.answer
    /\ call.arg.asked
    /\ call.exc = "ok"
    /\ Len(self.data.o) = 2
    /\ Has(self.data, call.arg.entry_id)

(* ------------------------------ C17 ------------------------------------ *)

\* C17: load() of a vault file that new() has made and nothing has written
\* since, with the password of the new(), raises nothing and leaves the
\* instance with an empty table: list_entries() is empty.
C17_NewIsLoadable ==
    (/\ call.op = "load"
     /\ call.pre.disk.pw = call.pw
     /\ call.pre.disk.data = <<>>) =>
        /\ call.exc = "ok"
        /\ self.data = Dict(<<>>)
        /\ list_entries(self.data).ret = <<>>

(* ------------------------------ C18 ------------------------------------ *)

\* C18: no method of an instance whose master password is not the one the
\* vault file is kept under changes what the file holds for its owner: after
\* the call the file still decrypts, under the owner's password, to the
\* plaintext it held before.
C18_BoundToPassword ==
    [][(/\ disk.pw # ""
        /\ call'.op # "__init__"
        /\ self.pw # disk.pw) =>
           _read_from_vault_file(file', aes', disk.pw)
               = {[exc |-> "ok", data |-> disk.data]}]_vars


(* ------------------------------ C19 ------------------------------------ *)

\* the entry ids readable from a vault payload
StoredIds(bytes) ==
    Bind(loads(bytes), LAMBDA r :
        IF r.ok /\ r.v.t = "obj" THEN KeySet(r.v) ELSE {})

\* C19: a save() of an instance that holds a table keeps every entry the file
\* held: each entry id readable from the file before the save is readable
\* from it afterwards.  (No method takes an id out of a table, so no id is
\* excepted as removed by the instance.)
C19_SaveKeepsEntries ==
    (call.op = "save" /\ call.exc = "ok" /\ call.pre.self.data.t = "obj") =>
        StoredIds(call.pre.disk.data) \subseteq StoredIds(disk.data)


(* ------------------------------ C20 ------------------------------------ *)

\* C20: the payload a save() leaves in the file is an entry table: it decodes
\* to a mapping whose values are records.
C20_SavedIsTable ==
    (call.op = "save" /\ call.exc = "ok") =>
        Bind(loads(disk.data), LAMBDA r :
            /\ r.ok
            /\ r.v.t = "obj"
            /\ \A i \in 1..Len(r.v.o) : r.v.o[i][2].t = "obj")


(* ------------------------------ C21 ------------------------------------ *)

\* C21: a read() that raises - the stored tag does not match under the
\* caller's password or after tampering, or the file fails an earlier check -
\* performs no rewrite: the file is byte for byte what it was and nothing was
\* written.  When the file was an intact vault, a read under the password it
\* is kept under still gives the plaintext it held.
C21_FailedReadLeavesFile ==
    [][(call'.op = "read" /\ call'.exc # "ok") =>
           /\ file' = file
           /\ written' = written
           /\ disk' = disk
           /\ (_is_vault_file(file) /\ ~disk.dirty) =>
                  _read_from_vault_file(file', aes', disk.pw)
                      = {[exc |-> "ok", data |-> disk.data]}]_vars

\* read() under another password than the one of an intact vault holding a
\* payload has raised VaultMasterPasswordIncorrect
C21_Witness ==
    /\ call.op = "read"
    /\ call.exc = "VaultMasterPasswordIncorrect"
    /\ call.pw # disk.pw
    /\ _is_vault_file(file)
    /\ ~disk.dirty
    /\ disk.data # <<>>
    /\ Header(file) = call.pre.header


(* ------------------------------ C22 ------------------------------------ *)

\* invocation i writes the file in this step
Wrote(i) == running[i].pc = "ready" /\ running'[i].pc = "done"

\* C22: when invocations overlap the last writer wins.  The write that ends
\* an invocation leaves a file that decrypts, under the invocation's
\* password, to the invocation's own payload - the argument of write(), and
\* for read() the plaintext the file held when the invocation read it,
\* whatever was written since - and no other step of an invocation changes
\* the file.
C22_LastWriterWins ==
    [][/\ \A i \in Invocations :
              Wrote(i) =>
                  _read_from_vault_file(file', aes', running[i].pw)
                      = {[exc |-> "ok",
                          data |-> IF running[i].op = "write" THEN running[i].arg
                                   ELSE running[i].held]}
       /\ (running' # running /\ \A i \in Invocations : ~Wrote(i)) =>
              file' = file]_vars

\* a lost write: a read() read the file, a write() of another payload was
\* made after that, and the rewrite of the read() then put back the
\* plaintext the file held before
C22_Witness ==
    \E r, w \in Invocations :
        /\ running[r].op = "read" /\ running[r].pc = "done" /\ running[r].exc = "ok"
        /\ running[w].op = "write" /\ running[w].pc = "done" /\ running[w].exc = "ok"
        /\ running[r].saw < running[w].at
        /\ running[w].at < running[r].at
        /\ running[w].arg # running[r].held
        /\ _read_from_vault_file(file, aes, running[r].pw)
               = {[exc |-> "ok", data |-> running[r].held]}

====
